---- MODULE Spec2Model ----
(***************************************************************************)
(* Model of src/web.py: a Streamlit script over one CSV table.  Streamlit  *)
(* executes the whole script, top to bottom, once at start and once after  *)
(* every widget interaction; the values the widgets return come from the   *)
(* session (the widget state Streamlit keeps between runs).                *)
(*                                                                         *)
(* A data frame is a sequence of rows; a row is a function from column     *)
(* names (and "index", the pandas index label read_csv gives the row) to   *)
(* values.  Numbers are integers, and rationals in the regression, where   *)
(* np.mean may round its result; a missing value is NaN.                   *)
(***************************************************************************)
EXTENDS Integers, Sequences, FiniteSets, TLC

VARIABLES
    csv,      \* the rows of the CSV file on disk (never written by the script)
    session,  \* Streamlit's widget state, by widget
    env       \* the script's variables after its latest run

vars == <<csv, session, env>>

----------------------------------------------------------------------------
(* Values *)

\* np.nan / a missing CSV cell; every real value of the model is >= 0.
NaN == -1

isna(v) == v = NaN

\* IEEE comparisons: every comparison with NaN is false.
Ge(a, b) == ~isna(a) /\ ~isna(b) /\ a >= b
Le(a, b) == ~isna(a) /\ ~isna(b) /\ a <= b
Eq(a, b) == ~isna(a) /\ ~isna(b) /\ a = b

COL_TOWN == "Town"
COL_YEAR == "Year"
COL_UNITS == "2010 Census Units"
COL_ASSISTED == "Total Assisted Units"
COL_PERCENT == "Percent Affordable"
COL_SF_RAW == " Single Family CHFA/ USDA Mortgages"
COL_SF == "Single Family CHFA/USDA Mortgages"

\* Town names in alphabetical order (sorted() on strings).
TownOrder == <<"Andover", "Bethel", "Canaan", "Darien", "Easton", "Granby", "Hebron", "Kent">>

TownRank(t) == CHOOSE i \in 1..Len(TownOrder) : TownOrder[i] = t

Min2(a, b) == IF a <= b THEN a ELSE b

SetMin(S) == CHOOSE m \in S : \A v \in S : m <= v
SetMax(S) == CHOOSE m \in S : \A v \in S : m >= v

Range(s) == {s[i] : i \in 1..Len(s)}

\* f itself.  TLC evaluates a function constructor lazily, at every application;
\* Strict(f) is f evaluated once.
Strict(f) == f @@ <<>>

\* The set of sequences over S of length lo..hi.
SeqsOf(S, lo, hi) == UNION {[1..n -> S] : n \in lo..hi}

----------------------------------------------------------------------------
(* pandas *)

\* pd.read_csv: the file's rows in file order, labelled 0, 1, 2, ... (RangeIndex).
read_csv(file) ==
    Strict([i \in 1..Len(file) |-> file[i] @@ ("index" :> (i - 1))])

\* DataFrame.rename(columns={old: new}): a new frame; the values are kept.
rename(frame, old, new) ==
    Strict([i \in 1..Len(frame) |->
        Strict([c \in ((DOMAIN frame[i]) \ {old}) \cup {new} |->
            IF c = new THEN frame[i][old] ELSE frame[i][c]])])

\* A year filter that keeps the later years too (>= for ==).
FilterEq_from(frame, col, v) == SelectSeq(frame, LAMBDA r : Ge(r[col], v))

\* frame[mask].copy() with mask = (frame[col] == v): the rows that match, in the
\* frame's order, as a new frame.
FilterEq(frame, col, v) == SelectSeq(frame, LAMBDA r : Eq(r[col], v))

\* The same for a column of strings (no missing values).
FilterEqText(frame, col, v) == SelectSeq(frame, LAMBDA r : r[col] = v)

\* A range filter that leaves out the upper bound's test.
FilterBetween_open_above(frame, col, lo, hi) == SelectSeq(frame, LAMBDA r : Ge(r[col], lo))

\* frame[(frame[col] >= lo) & (frame[col] <= hi)].copy()
FilterBetween(frame, col, lo, hi) ==
    SelectSeq(frame, LAMBDA r : Ge(r[col], lo) /\ Le(r[col], hi))

\* Series.min() / Series.max(): missing values are skipped.
ColumnValues(frame, col) == {frame[i][col] : i \in 1..Len(frame)} \ {NaN}
ColumnMin(frame, col) == SetMin(ColumnValues(frame, col))
ColumnMax(frame, col) == SetMax(ColumnValues(frame, col))

\* sorted(frame[col].unique()) for a column of integers.
RECURSIVE SortedSeq(_)
SortedSeq(S) ==
    IF S = {} THEN <<>> ELSE <<SetMin(S)>> \o SortedSeq(S \ {SetMin(S)})

\* sorted(frame["Town"].unique()): the towns that occur, alphabetically.
SortedTowns(frame) ==
    SelectSeq(TownOrder, LAMBDA t : \E i \in 1..Len(frame) : frame[i][COL_TOWN] = t)

\* The orders of the rows R (none missing in col) that are sorted by col.
RECURSIVE SortedOrders(_, _, _)
SortedOrders(R, col, ascending) ==
    IF R = {} THEN {<<>>}
    ELSE UNION {
        {<<r>> \o t : t \in SortedOrders(R \ {r}, col, ascending)} :
            r \in {q \in R : \A p \in R :
                     IF ascending THEN q[col] <= p[col] ELSE q[col] >= p[col]}}

\* DataFrame.sort_values(col, ascending=...): a new frame.  The call passes no
\* kind, so the sort is pandas' default kind="quicksort", which is not stable:
\* rows with equal keys may come out in any order.  Rows with a missing key go
\* last (na_position="last"), in their original order.  The result is one of:
sort_values(frame, col, ascending) ==
    {s \o SelectSeq(frame, LAMBDA r : isna(r[col])) :
        s \in SortedOrders({r \in Range(frame) : ~isna(r[col])}, col, ascending)}

\* DataFrame.head(n)
head(frame, n) == SubSeq(frame, 1, Min2(n, Len(frame)))

\* DataFrame.dropna(subset=[c1, c2]): a new frame without the rows that miss either.
dropna(frame, c1, c2) == SelectSeq(frame, LAMBDA r : ~isna(r[c1]) /\ ~isna(r[c2]))

----------------------------------------------------------------------------
(* numpy: float64 values are modelled exactly, as rationals <<num, den>> with
   den >= 0; <<0, 0>> is nan, <<n, 0>> with n > 0 is +inf and with n < 0 is
   -inf.  The operations do not reduce their results; Rat and Norm give the
   lowest terms, which is the form the script's variables are kept in. *)

RNaN == <<0, 0>>

Abs(n) == IF n < 0 THEN -n ELSE n
Sign(n) == IF n < 0 THEN -1 ELSE IF n = 0 THEN 0 ELSE 1

RECURSIVE Gcd(_, _)
Gcd(m, n) == IF n = 0 THEN m ELSE Gcd(n, m % n)

Rat(n, d) ==
    IF d = 0 THEN <<Sign(n), 0>>
    ELSE LET g == Gcd(Abs(n), Abs(d))
         IN  <<(Sign(d) * n) \div g, Abs(d) \div g>>

Norm(p) == Rat(p[1], p[2])

R(n) == <<n, 1>>
RIsNaN(p) == p = RNaN
RIsFinite(p) == p[2] # 0
RIsZero(p) == p[1] = 0 /\ p[2] # 0

RNeg(p) == <<-p[1], p[2]>>
RAdd(p, q) ==
    IF RIsFinite(p) /\ RIsFinite(q)
    THEN IF p[2] = q[2] THEN <<p[1] + q[1], p[2]>>
         ELSE <<p[1] * q[2] + q[1] * p[2], p[2] * q[2]>>
    ELSE IF RIsNaN(p) \/ RIsNaN(q) THEN RNaN
    ELSE IF ~RIsFinite(p) /\ ~RIsFinite(q) /\ Sign(p[1]) # Sign(q[1]) THEN RNaN
    ELSE IF RIsFinite(p) THEN q ELSE p
RSub(p, q) == RAdd(p, RNeg(q))
RMul(p, q) ==
    IF RIsNaN(p) \/ RIsNaN(q) THEN RNaN
    ELSE <<p[1] * q[1], p[2] * q[2]>>
\* float64 division: x / 0.0 is inf or nan (a warning, not an exception).
RDiv(p, q) ==
    IF RIsNaN(p) \/ RIsNaN(q) THEN RNaN
    ELSE <<p[1] * q[2] * Sign(q[1]), p[2] * Abs(q[1])>>

RECURSIVE Sum(_)
Sum(s) == IF s = <<>> THEN 0 ELSE Head(s) + Sum(Tail(s))

RECURSIVE RSum(_)
RSum(s) == IF s = <<>> THEN R(0) ELSE RAdd(Head(s), RSum(Tail(s)))

\* frame[col].values
values(frame, col) == Strict([i \in 1..Len(frame) |-> frame[i][col]])

\* The mean of y as a real number.
exact_mean(y) == Rat(Sum(y), Len(y))

\* One unit in the last place of a float64, at the scale of the model's numbers
\* (which stand for float64 values at large).
ULP == <<1, 1024>>

\* np.mean(y) = np.add.reduce(y) / len(y), in float64.  v + v and its half are
\* exact; any other sum may be rounded, and the quotient with it: the result is
\* the real mean or a float64 next to it.  (The mean of 0.1, 0.1, 0.1 is
\* 0.10000000000000002.)  The possible results:
mean(y) ==
    {exact_mean(y)} \cup
    IF Len(y) = 2 /\ y[1] = y[2] THEN {} ELSE {Norm(RAdd(exact_mean(y), ULP))}

\* np.polyfit(x, y, 1) for len(x) >= 2: the least-squares line, as <<b, a>>
\* (slope first).  When every x is the same value c the system is rank
\* deficient: polyfit scales the columns of [x, 1] to unit norm and lstsq returns
\* the minimum-norm solution, which for c > 0 is b = m/(2c), a = m/2, m the mean
\* of y.
\* For c = 0 the x column scales by 0/0: the build either raises LinAlgError
\* (ok = FALSE) or returns nan coefficients.
polyfit(x, y) ==
    LET n == Len(x)
        Sx == Sum(x)
        Sy == Sum(y)
        Sxx == Sum([i \in 1..n |-> x[i] * x[i]])
        Sxy == Sum([i \in 1..n |-> x[i] * y[i]])
        D == n * Sxx - Sx * Sx
        slope == Rat(n * Sxy - Sx * Sy, D)
    IN  IF D # 0
        THEN {[ok |-> TRUE, b |-> slope,
               a |-> Norm(RDiv(RSub(R(Sy), RMul(slope, R(Sx))), R(n)))]}
        ELSE IF x[1] # 0
        THEN {[ok |-> TRUE, b |-> Norm(RDiv(exact_mean(y), R(2 * x[1]))),
               a |-> Norm(RDiv(exact_mean(y), R(2)))]}
        ELSE {[ok |-> FALSE, b |-> RNaN, a |-> RNaN],
              [ok |-> TRUE, b |-> RNaN, a |-> RNaN]}

\* y_pred = a + b * x
predict(a, b, x) == Strict([i \in 1..Len(x) |-> RAdd(a, RMul(b, R(x[i])))])

\* np.sum((y - y_pred) ** 2)
sum_sq_res(y, y_pred) ==
    Norm(RSum(Strict([i \in 1..Len(y) |->
            LET d == RSub(R(y[i]), y_pred[i]) IN RMul(d, d)])))

\* np.sum((y - m) ** 2), m the value of np.mean(y)
sum_sq_tot(y, m) ==
    Norm(RSum(Strict([i \in 1..Len(y) |->
        LET d == RSub(R(y[i]), m) IN RMul(d, d)])))

\* r2 = 1 - ss_res / ss_tot if ss_tot != 0 else np.nan
\* A conditional expression evaluates its condition, then one branch only:
\* "divided" records whether ss_res / ss_tot was evaluated.
r2_of(ss_res, ss_tot) ==
    IF ~RIsZero(ss_tot)
    THEN [r2 |-> Norm(RSub(R(1), RDiv(ss_res, ss_tot))), divided |-> TRUE]
    ELSE [r2 |-> RNaN, divided |-> FALSE]

\* float(n) of an integer below 2^53: the same number, as a float64.
float(n) == IF isna(n) THEN RNaN ELSE R(n)

\* float64 comparison (false when either side is nan).
RLe(p, q) == RIsFinite(p) /\ RIsFinite(q) /\ p[1] * q[2] <= q[1] * p[2]

\* A bound filter with strict comparisons (> and < for >= and <=).
FilterBetweenFloat_strict(frame, col, low, high) ==
    SelectSeq(frame, LAMBDA r :
        /\ RLe(low, float(r[col])) /\ low # float(r[col])
        /\ RLe(float(r[col]), high) /\ high # float(r[col]))

\* frame[(frame[col] >= low) & (frame[col] <= high)].copy() with float bounds
FilterBetweenFloat(frame, col, low, high) ==
    SelectSeq(frame, LAMBDA r : RLe(low, float(r[col])) /\ RLe(float(r[col]), high))

----------------------------------------------------------------------------
(* Streamlit widgets: a widget returns the value the session holds for it when
   that value is one the widget offers, and its default otherwise. *)

\* st.selectbox(label, options, key=...): the default is the first option.
selectbox(options, stored) ==
    IF stored \in Range(options) THEN stored ELSE options[1]

\* st.slider(label, min, max, value): one number.
slider(min_value, max_value, value, stored) ==
    IF min_value <= stored /\ stored <= max_value THEN stored ELSE value

\* st.slider(label, min, max, (lo, hi)): a range of integers.
range_slider(min_value, max_value, value, stored) ==
    IF min_value <= stored[1] /\ stored[1] <= stored[2] /\ stored[2] <= max_value
    THEN stored ELSE value

\* The float range slider of the census units.  Its bounds are arguments of the
\* widget: when they differ from those of the run before, Streamlit builds a new
\* widget, which starts at its default.
float_range_slider(min_value, max_value, value, stored) ==
    IF stored.bounds = <<min_value, max_value>>
       /\ RLe(min_value, stored.value[1]) /\ RLe(stored.value[1], stored.value[2])
       /\ RLe(stored.value[2], max_value)
    THEN stored.value ELSE value

\* The session before the first run: no widget has a value yet.
NoSession ==
    [year_bar |-> 0, top_n |-> 0, year_range_scatter |-> <<0, 0>>,
     units_filter |-> [bounds |-> <<RNaN, RNaN>>, value |-> <<RNaN, RNaN>>],
     town_timeseries |-> "", reg_year |-> 0]

----------------------------------------------------------------------------
(* The script.  Each statement maps the script's variables (env) to the set of
   variable states it can leave: one state, except where a sort or polyfit has
   several possible results.  Two fields are not variables of the script:
   df_range_years and df_reg_year keep the value a variable had before the
   script assigned it again (df_range at line 71, df_reg at line 152). *)

TOP_N_MIN == 5
TOP_N_MAX == 50
TOP_N_DEFAULT == 20
LINE_POINTS == 100

\* The variables before the script's first statement.
NoEnv ==
    [df |-> <<>>, years |-> <<>>, towns |-> <<>>,
     year_selected |-> 0, df_year |-> <<>>, top_n |-> 0, df_year_sorted |-> <<>>,
     min_year |-> 0, max_year |-> 0, year_range |-> <<0, 0>>,
     df_range_years |-> <<>>, min_units |-> RNaN, max_units |-> RNaN,
     units_low |-> RNaN, units_high |-> RNaN, df_range |-> <<>>,
     town_selected |-> "", df_town |-> <<>>,
     reg_year |-> 0, df_reg_year |-> <<>>, df_reg |-> <<>>,
     warning |-> FALSE, x |-> <<>>, y |-> <<>>, raised |-> FALSE, fitted |-> FALSE,
     b |-> RNaN, a |-> RNaN, equation |-> FALSE, df_line |-> [num |-> 0, first |-> <<RNaN, RNaN>>, last |-> <<RNaN, RNaN>>], chart |-> FALSE,
     ss_res |-> RNaN, ss_tot |-> RNaN, r2 |-> RNaN, divided |-> FALSE,
     r2_written |-> FALSE]

\* S, then statement Op on each state of S.
Then(S, Op(_)) == UNION {Op(e) : e \in S}

\* 7: df = pd.read_csv(...)
stmt_read_csv(e, file) == {[e EXCEPT !.df = read_csv(file)]}

\* 10-12: df = df.rename(columns={...})
stmt_rename(e) == {[e EXCEPT !.df = rename(e.df, COL_SF_RAW, COL_SF)]}

\* 22-23: years, towns
stmt_years_towns(e) ==
    {[e EXCEPT !.years = SortedSeq(ColumnValues(e.df, COL_YEAR)),
               !.towns = SortedTowns(e.df)]}

\* 30: year_selected = st.selectbox("Select a year", years, key="year_bar")
stmt_year_selected(e, ses) ==
    {[e EXCEPT !.year_selected = selectbox(e.years, ses.year_bar)]}

\* 32: df_year = df[df["Year"] == year_selected].copy()
stmt_df_year(e) == {[e EXCEPT !.df_year = FilterEq(e.df, COL_YEAR, e.year_selected)]}

\* 35: top_n = st.slider("Show top N towns by Percent Affordable", 5, 50, 20)
stmt_top_n(e, ses) ==
    {[e EXCEPT !.top_n = slider(TOP_N_MIN, TOP_N_MAX, TOP_N_DEFAULT, ses.top_n)]}

\* The bar view sorted ascending (ascending=False left out).
stmt_df_year_sorted_ascending(e) ==
    {[e EXCEPT !.df_year_sorted = head(s, e.top_n)] :
        s \in sort_values(e.df_year, COL_PERCENT, TRUE)}

\* 37: df_year_sorted = df_year.sort_values("Percent Affordable", ascending=False).head(top_n)
stmt_df_year_sorted(e) ==
    {[e EXCEPT !.df_year_sorted = head(s, e.top_n)] :
        s \in sort_values(e.df_year, COL_PERCENT, FALSE)}

\* 62-69: min_year, max_year, year_range
stmt_year_range(e, ses) ==
    LET lo == ColumnMin(e.df, COL_YEAR)
        hi == ColumnMax(e.df, COL_YEAR)
    IN  {[e EXCEPT !.min_year = lo, !.max_year = hi,
                   !.year_range = range_slider(lo, hi, <<lo, hi>>, ses.year_range_scatter)]}

\* 71: df_range = df[(df["Year"] >= year_range[0]) & (df["Year"] <= year_range[1])].copy()
stmt_df_range(e) ==
    LET view == FilterBetween(e.df, COL_YEAR, e.year_range[1], e.year_range[2])
    IN  {[e EXCEPT !.df_range = view, !.df_range_years = view]}

\* 74-82: min_units, max_units, units_low, units_high
stmt_units(e, ses) ==
    LET lo == float(ColumnMin(e.df_range, COL_UNITS))
        hi == float(ColumnMax(e.df_range, COL_UNITS))
        sel == float_range_slider(lo, hi, <<lo, hi>>, ses.units_filter)
    IN  {[e EXCEPT !.min_units = lo, !.max_units = hi,
                   !.units_low = sel[1], !.units_high = sel[2]]}

\* 84-87: df_range = df_range[(units >= units_low) & (units <= units_high)].copy()
stmt_df_range_units(e) ==
    {[e EXCEPT !.df_range =
        FilterBetweenFloat(e.df_range, COL_UNITS, e.units_low, e.units_high)]}

\* 116: town_selected = st.selectbox("Select a town", towns, key="town_timeseries")
stmt_town_selected(e, ses) ==
    {[e EXCEPT !.town_selected = selectbox(e.towns, ses.town_timeseries)]}

\* 118: df_town = df[df["Town"] == town_selected].copy()
stmt_df_town(e) == {[e EXCEPT !.df_town = FilterEqText(e.df, COL_TOWN, e.town_selected)]}

\* The town view left in the order of the source table (no sort).
stmt_df_town_sorted_skipped(e) == {e}

\* The sorted town view assigned to df (df = df_town.sort_values("Year")).
stmt_df_town_sorted_into_df(e) ==
    {[e EXCEPT !.df = s] : s \in sort_values(e.df_town, COL_YEAR, TRUE)}

\* 119: df_town = df_town.sort_values("Year")
stmt_df_town_sorted(e) ==
    {[e EXCEPT !.df_town = s] : s \in sort_values(e.df_town, COL_YEAR, TRUE)}

\* 150: reg_year = st.selectbox("Select year for regression", years, key="reg_year")
stmt_reg_year(e, ses) == {[e EXCEPT !.reg_year = selectbox(e.years, ses.reg_year)]}

\* 152: df_reg = df[df["Year"] == reg_year].copy()
stmt_df_reg(e) ==
    LET view == FilterEq(e.df, COL_YEAR, e.reg_year)
    IN  {[e EXCEPT !.df_reg = view, !.df_reg_year = view]}

\* The regression input with its missing values left in (no dropna).
stmt_dropna_skipped(e) == {e}

\* 155: df_reg = df_reg.dropna(subset=["Total Assisted Units", "Percent Affordable"])
stmt_dropna(e) == {[e EXCEPT !.df_reg = dropna(e.df_reg, COL_ASSISTED, COL_PERCENT)]}

\* 171-176: x_line = np.linspace(x.min(), x.max(), 100); y_line = a + b * x_line.
\* Of the sampled line the model keeps the number of points and the two ends.
line_frame(a, b, x) ==
    LET lo == R(SetMin(Range(x)))
        hi == R(SetMax(Range(x)))
    IN  [num |-> LINE_POINTS,
         first |-> <<lo, Norm(RAdd(a, RMul(b, lo)))>>,
         last |-> <<hi, Norm(RAdd(a, RMul(b, hi)))>>]

\* 160-205: the else branch, for one result p of polyfit and one result m of
\* np.mean(y).  When polyfit raises, the script stops there.
fit_branch(e, x, y, p, m) ==
    IF ~p.ok THEN [e EXCEPT !.x = x, !.y = y, !.raised = TRUE]
    ELSE LET ss_res == sum_sq_res(y, predict(p.a, p.b, x))
             ss_tot == sum_sq_tot(y, m)
             r == r2_of(ss_res, ss_tot)
         IN  [e EXCEPT !.x = x, !.y = y, !.fitted = TRUE, !.b = p.b, !.a = p.a,
                       !.equation = TRUE, !.df_line = line_frame(p.a, p.b, x),
                       !.chart = TRUE, !.ss_res = ss_res, !.ss_tot = ss_tot,
                       !.r2 = r.r2, !.divided = r.divided, !.r2_written = TRUE]

\* 157-205: if len(df_reg) < 2: st.warning(...) else: fit, chart, R2
stmt_regression(e) ==
    IF Len(e.df_reg) < 2 THEN {[e EXCEPT !.warning = TRUE]}
    ELSE LET x == values(e.df_reg, COL_ASSISTED)
             y == values(e.df_reg, COL_PERCENT)
         IN  {fit_branch(e, x, y, p, m) : p \in polyfit(x, y), m \in mean(y)}

\* One run of the script, top to bottom: the variable states it can end in.
script(file, ses) ==
    LET s007 == stmt_read_csv(NoEnv, file)
        s010 == Then(s007, stmt_rename)
        s022 == Then(s010, stmt_years_towns)
        s030 == Then(s022, LAMBDA e : stmt_year_selected(e, ses))
        s032 == Then(s030, stmt_df_year)
        s035 == Then(s032, LAMBDA e : stmt_top_n(e, ses))
        s037 == Then(s035, stmt_df_year_sorted)
        s062 == Then(s037, LAMBDA e : stmt_year_range(e, ses))
        s071 == Then(s062, stmt_df_range)
        s074 == Then(s071, LAMBDA e : stmt_units(e, ses))
        s084 == Then(s074, stmt_df_range_units)
        s116 == Then(s084, LAMBDA e : stmt_town_selected(e, ses))
        s118 == Then(s116, stmt_df_town)
        s119 == Then(s118, stmt_df_town_sorted)
        s150 == Then(s119, LAMBDA e : stmt_reg_year(e, ses))
        s152 == Then(s150, stmt_df_reg)
        s155 == Then(s152, stmt_dropna)
    IN  Then(s155, stmt_regression)

\* The widget values Streamlit holds after a run.
session_after(e) ==
    [year_bar |-> e.year_selected, top_n |-> e.top_n,
     year_range_scatter |-> e.year_range,
     units_filter |-> [bounds |-> <<e.min_units, e.max_units>>,
                       value |-> <<e.units_low, e.units_high>>],
     town_timeseries |-> e.town_selected, reg_year |-> e.reg_year]

\* Streamlit runs the script with the widget values ses.
Rerun(ses) ==
    \E e \in script(csv, ses) :
        /\ env' = e
        /\ session' = session_after(e)
        /\ UNCHANGED csv

----------------------------------------------------------------------------
(* The user's interactions.  Each sets one widget and Streamlit runs the script
   again.  Choosing the value a widget already has is a plain rerun. *)

\* The slider positions tried for top N: the minimum and the default.
TopNChoices == {TOP_N_MIN, TOP_N_DEFAULT}

\* The positions tried on the census-units slider: the whole numbers in its range.
UnitsChoices ==
    {float(u) : u \in ColumnMin(env.df_range_years, COL_UNITS)
                      .. ColumnMax(env.df_range_years, COL_UNITS)}

SelectYearBar ==
    \E v \in Range(env.years) : Rerun([session EXCEPT !.year_bar = v])

SetTopN ==
    \E v \in TopNChoices \cap (TOP_N_MIN..TOP_N_MAX) :
        Rerun([session EXCEPT !.top_n = v])

SetYearRange ==
    \E lo \in env.min_year..env.max_year : \E hi \in lo..env.max_year :
        Rerun([session EXCEPT !.year_range_scatter = <<lo, hi>>])

SetUnitsFilter ==
    \E lo \in UnitsChoices : \E hi \in {u \in UnitsChoices : RLe(lo, u)} :
        Rerun([session EXCEPT !.units_filter.value = <<lo, hi>>])

SelectTown ==
    \E v \in Range(env.towns) : Rerun([session EXCEPT !.town_timeseries = v])

SelectRegYear ==
    \E v \in Range(env.years) : Rerun([session EXCEPT !.reg_year = v])

Next ==
    \/ SelectYearBar
    \/ SetTopN
    \/ SetYearRange
    \/ SetUnitsFilter
    \/ SelectTown
    \/ SelectRegYear

----------------------------------------------------------------------------
(* Datasets.  A CSV row holds the six columns; the script cannot start on an
   empty file (int(df["Year"].min()) raises), so every dataset has a row. *)

CsvRow(town, year, units, assisted, percent) ==
    [c \in {COL_TOWN, COL_YEAR, COL_UNITS, COL_ASSISTED, COL_PERCENT, COL_SF_RAW} |->
        CASE c = COL_TOWN -> town
          [] c = COL_YEAR -> year
          [] c = COL_UNITS -> units
          [] c = COL_ASSISTED -> assisted
          [] c = COL_PERCENT -> percent
          [] OTHER -> 0]

\* The state after the first run of the script on the file.
Start(file) ==
    /\ csv = file
    /\ \E e \in script(file, NoSession) :
        /\ env = e
        /\ session = session_after(e)

\* 2010 Census Units is fixed per town.
UnitsOf(town) == TownRank(town)

\* Datasets for the filters: towns and years vary, row by row; the town and year
\* of a row need not be unique; Percent Affordable differs between towns and
\* between years.
MaxRows == 2
FilterRows ==
    {CsvRow(t, yr, UnitsOf(t), 1, 2 * TownRank(t) + (yr - 2011)) :
        t \in {"Andover", "Bethel"}, yr \in {2011, 2012}}
FilterTables == SeqsOf(FilterRows, 1, MaxRows)

Init == \E file \in FilterTables : Start(file)

Spec == Init /\ [][Next]_vars

\* Datasets for the bar chart: one year, one row per town, enough rows for the
\* top-N cut to drop some.  Percent Affordable takes a value at most twice and is
\* missing at most once; Total Assisted Units is missing throughout.
MaxBarRows == 6
BarPercents == {NaN, 1, 2, 3}
BarColumns ==
    {p \in SeqsOf(BarPercents, TOP_N_MIN, MaxBarRows) :
        /\ \A v \in BarPercents \ {NaN} :
              Cardinality({i \in 1..Len(p) : p[i] = v}) <= 2
        /\ Cardinality({i \in 1..Len(p) : p[i] = NaN}) <= 1}
BarTables ==
    {[i \in 1..Len(p) |-> CsvRow(TownOrder[i], 2015, UnitsOf(TownOrder[i]), NaN, p[i])] :
        p \in BarColumns}

InitBar == \E file \in BarTables : Start(file)

\* The user works the bar chart's slider.
NextBar == SetTopN

SpecBar == InitBar /\ [][NextBar]_vars

\* Datasets for the regression: two years, the rows of the first before those of
\* the second, one row per town, with missing values in either column, equal and
\* unequal x, equal and unequal y.
MaxRegRows == 3
RegPoints == {<<NaN, 1>>, <<1, NaN>>, <<0, 1>>, <<1, 1>>, <<1, 2>>}
RegColumns ==
    {c \in SeqsOf({2011, 2012} \X RegPoints, 1, MaxRegRows) :
        \A i \in 1..(Len(c) - 1) : c[i][1] <= c[i + 1][1]}
RegTables ==
    {[i \in 1..Len(c) |->
        CsvRow(TownOrder[i], c[i][1], UnitsOf(TownOrder[i]), c[i][2][1], c[i][2][2])] :
        c \in RegColumns}

InitReg == \E file \in RegTables : Start(file)

\* The user works the regression's year selector.
NextReg == SelectRegYear

SpecReg == InitReg /\ [][NextReg]_vars

----------------------------------------------------------------------------
(* Properties *)

\* The positions in frame of the rows that satisfy Test.
Where(frame, Test(_)) == {i \in 1..Len(frame) : Test(frame[i])}

\* Every row of view is a row of frame, and no row occurs twice in view.
RowsOf(view, frame) ==
    /\ Range(view) \subseteq Range(frame)
    /\ Cardinality(Range(view)) = Len(view)

\* view is exactly the rows of frame that satisfy Test, once each.
ExactlyWhere(view, frame, Test(_)) ==
    /\ RowsOf(view, frame)
    /\ \A i \in 1..Len(view) : Test(view[i])
    /\ Len(view) = Cardinality(Where(frame, Test))

\* C1: the year filter returns only rows of the selected year, and all of them:
\* as many as the source table has for that year.  It is used for the bar chart
\* (df_year) and for the regression input (df_reg before dropna).
C1_YearFilter ==
    /\ env.year_selected \in Range(env.years)
    /\ ExactlyWhere(env.df_year, env.df, LAMBDA r : r[COL_YEAR] = env.year_selected)
    /\ env.reg_year \in Range(env.years)
    /\ ExactlyWhere(env.df_reg_year, env.df, LAMBDA r : r[COL_YEAR] = env.reg_year)

\* A year other than the first is selected in both places, and the views are
\* proper, non-empty parts of the table.
C1_Witness ==
    /\ env.year_selected # env.years[1]
    /\ env.reg_year # env.years[1]
    /\ Len(env.df_year) >= 1
    /\ Len(env.df_year) < Len(env.df)
    /\ Len(env.df_reg_year) < Len(env.df)

\* a >= b, a missing value counting as lower than every number.
GeNaLast(a, b) == isna(b) \/ Ge(a, b)

\* The top-N view against the year view it is cut from, under the order Above.
TopNView(Above(_, _)) ==
    LET view == env.df_year
        top == env.df_year_sorted
        P(r) == r[COL_PERCENT]
    IN  /\ env.top_n >= 1
        /\ RowsOf(top, view)
        /\ Len(top) = Min2(env.top_n, Len(view))
        /\ \A i \in 1..(Len(top) - 1) : Above(P(top[i]), P(top[i + 1]))
        /\ \A r \in Range(top) : \A q \in Range(view) \ Range(top) : Above(P(r), P(q))
        /\ (env.top_n >= Len(view) => Range(top) = Range(view))

\* C2 as stated: the top-N view has min(n, size) rows, is in descending order of
\* Percent Affordable, and every kept row's value is >= every dropped row's; with
\* n at or above the size the whole view is returned.
C2_TopN_Original == TopNView(Ge)

\* C2 as amended: the same, a missing Percent Affordable counting as lower than
\* every number (rows that miss it come last and are dropped first).
C2_TopN == TopNView(GeNaLast)

\* The cut drops a row, and the view holds a missing value.
C2_Witness ==
    /\ Len(env.df_year) > env.top_n
    /\ Len(env.df_year_sorted) = env.top_n
    /\ \E r \in Range(env.df_year) : isna(r[COL_PERCENT])

\* C3: the top-N sort is stable: rows with equal Percent Affordable appear in the
\* order of the input view, and of a tie across the cut the earliest rows are
\* kept.  (The year view keeps the source order, so the index label gives a
\* row's place in it.)
C3_StableTies ==
    LET top == env.df_year_sorted
        P(r) == r[COL_PERCENT]
    IN  /\ \A i, j \in 1..Len(top) :
              (i < j /\ Eq(P(top[i]), P(top[j]))) => top[i]["index"] < top[j]["index"]
        /\ \A r \in Range(top) : \A q \in Range(env.df_year) \ Range(top) :
              Eq(P(r), P(q)) => r["index"] < q["index"]

\* C4: top-N is idempotent: sorting the top-N view descending and cutting it to n
\* again gives the same rows in the same order.
C4_Idempotent ==
    \A again \in sort_values(env.df_year_sorted, COL_PERCENT, FALSE) :
        head(again, env.top_n) = env.df_year_sorted

\* C5: the town filter returns exactly the rows of the source table whose Town is
\* the selected town, with Year non-decreasing from each row to the next.
C5_TownSeries ==
    /\ env.town_selected \in Range(env.towns)
    /\ ExactlyWhere(env.df_town, env.df, LAMBDA r : r[COL_TOWN] = env.town_selected)
    /\ \A i \in 1..(Len(env.df_town) - 1) :
          env.df_town[i][COL_YEAR] <= env.df_town[i + 1][COL_YEAR]

\* The source table lists a later year of the selected town before an earlier one.
C5_Witness ==
    /\ Len(env.df_town) >= 2
    /\ \E i, j \in 1..Len(env.df) :
          /\ i < j
          /\ env.df[i][COL_TOWN] = env.town_selected
          /\ env.df[j][COL_TOWN] = env.town_selected
          /\ env.df[i][COL_YEAR] > env.df[j][COL_YEAR]

\* C6: with the year range set to [Y, Y], the range view (before the census-unit
\* filter) is the year filter's view for Y, row for row.
C6_RangeOfOneYear ==
    env.year_range[1] = env.year_range[2] =>
        /\ ExactlyWhere(env.df_range_years, env.df,
                        LAMBDA r : r[COL_YEAR] = env.year_range[1])
        /\ (env.year_selected = env.year_range[1] => env.df_range_years = env.df_year)

\* The range is one year, the bar chart shows the same year, and the table holds
\* rows of another year.
C6_Witness ==
    /\ env.year_range[1] = env.year_range[2]
    /\ env.year_selected = env.year_range[1]
    /\ Len(env.df_range_years) >= 1
    /\ Len(env.df_range_years) < Len(env.df)

\* C7: with the census-unit bounds at the minimum and maximum observed in the
\* year-range view, the bound filter keeps the rows that attain them, so a
\* non-empty view stays non-empty.
C7_BoundsAtExtremes ==
    LET view == env.df_range_years
        lo == ColumnMin(view, COL_UNITS)
        hi == ColumnMax(view, COL_UNITS)
    IN  (/\ view # <<>>
         /\ env.units_low = float(lo)
         /\ env.units_high = float(hi))
        => /\ env.df_range # <<>>
           /\ \A r \in Range(view) :
                 r[COL_UNITS] \in {lo, hi} => r \in Range(env.df_range)

\* The bounds are at the extremes of a view of two rows, and the extremes differ.
C7_Witness ==
    /\ env.units_low = env.min_units
    /\ env.units_high = env.max_units
    /\ env.min_units # env.max_units
    /\ Len(env.df_range_years) >= 2
    /\ Len(env.df_range) >= 2

Missing(r) == isna(r[COL_ASSISTED]) \/ isna(r[COL_PERCENT])

\* C8: the regression input is the selected year's rows without those that miss
\* Total Assisted Units or Percent Affordable; with fewer than 2 of them the
\* script warns and fits nothing (no line, no equation, no chart, no R2), and it
\* fits only with at least 2.
C8_InsufficientData ==
    /\ env.df_reg = SelectSeq(env.df_reg_year, LAMBDA r : ~Missing(r))
    /\ Len(env.df_reg) < 2 =>
          /\ env.warning
          /\ ~env.raised /\ ~env.fitted /\ ~env.equation /\ ~env.chart
          /\ env.df_line.num = 0
          /\ ~env.divided /\ ~env.r2_written
    /\ Len(env.df_reg) >= 2 => ~env.warning /\ (env.fitted \/ env.raised)
    /\ env.fitted => /\ Len(env.x) = Len(env.df_reg)
                     /\ \A i \in 1..Len(env.x) : ~isna(env.x[i]) /\ ~isna(env.y[i])

\* The selected year has at least 2 rows, but fewer than 2 without missing values.
C8_Witness ==
    /\ Len(env.df_reg_year) >= 2
    /\ Len(env.df_reg) < 2
    /\ env.warning
    /\ env.reg_year # env.years[1]

\* y holds one value throughout.
Constant(y) == \A i, j \in 1..Len(y) : y[i] = y[j]

\* C9: when a fit is made and SS_tot is 0, which is when all usable y are
\* identical, R2 is nan and ss_res / ss_tot is not evaluated; in every other case
\* R2 is 1 - ss_res / ss_tot.
C9_RSquared ==
    env.fitted =>
        /\ Constant(env.y) => RIsNaN(env.r2) /\ ~env.divided
        /\ ~Constant(env.y) =>
              /\ env.divided
              /\ env.r2 = Norm(RSub(R(1), RDiv(env.ss_res, env.ss_tot)))

\* What the script's test does give: R2 is nan, without a division, exactly when
\* the computed ss_tot is 0, and 1 - ss_res / ss_tot otherwise; and a computed
\* ss_tot of 0 does mean that the y are identical.
R2Guard ==
    env.fitted =>
        /\ RIsZero(env.ss_tot) => RIsNaN(env.r2) /\ ~env.divided /\ Constant(env.y)
        /\ ~RIsZero(env.ss_tot) =>
              /\ env.divided
              /\ env.r2 = Norm(RSub(R(1), RDiv(env.ss_res, env.ss_tot)))
        /\ env.r2_written

\* C10: the source table stays what was loaded: the rows of the file, in the
\* file's order, with the file's values (under the corrected column name),
\* whatever the user does.
C10_SourceUnchanged ==
    /\ Len(env.df) = Len(csv)
    /\ \A i \in 1..Len(csv) :
          /\ env.df[i]["index"] = i - 1
          /\ env.df[i][COL_SF] = csv[i][COL_SF_RAW]
          /\ \A c \in {COL_TOWN, COL_YEAR, COL_UNITS, COL_ASSISTED, COL_PERCENT} :
                env.df[i][c] = csv[i][c]

\* Every widget is off its default, and the views are proper parts of the table.
C10_Witness ==
    /\ env.year_selected # env.years[1]
    /\ env.top_n # TOP_N_DEFAULT
    /\ env.year_range # <<env.min_year, env.max_year>>
    /\ env.town_selected # env.towns[1]
    /\ env.reg_year # env.years[1]
    /\ Len(env.df_town) < Len(env.df)
    /\ Len(env.df_range) < Len(env.df)

====
